---- MODULE Spec2Model ----
(***************************************************************************)
(* The peer-to-peer session layer of the WebRTC chat component             *)
(* (WebrtcApp, the variant with calls): two endpoints, each running the    *)
(* component, the data connections between them, the frames in flight and  *)
(* each endpoint's message log.                                            *)
(*                                                                         *)
(* A handler of the component is a function from the state before it to    *)
(* the state after it (a record holding every variable), so that handlers  *)
(* a handler calls, and the events a library call raises synchronously,    *)
(* compose inside one action.                                              *)
(***************************************************************************)
EXTENDS Naturals, Sequences, FiniteSets, TLC

VARIABLES
    status,         \* useState status, per endpoint
    connection,     \* useState connection, per endpoint (0 is null)
    connectionRef,  \* useRef connectionRef.current, per endpoint (0 is null)
    targetId,       \* useState targetId, per endpoint
    messages,       \* useState messages, per endpoint: the log
    conns,          \* the DataConnection objects created so far, by id
    reads,          \* FileReader loads in flight, per endpoint
    callState,      \* useState callState, per endpoint
    callMode,       \* useState callMode, per endpoint
    mediaCallRef,   \* useRef mediaCallRef.current, per endpoint (0 is null)
    calls,          \* the MediaConnection objects created so far, by id
    lastData,       \* history: the type of the last frame conn.on('data') saw
    now,            \* Date.now(), in milliseconds since the component started
    localStreamRef, \* useRef localStreamRef.current, per endpoint (0 is null)
    streams,        \* the MediaStream objects getUserMedia returned, by id
    acquiring,      \* getUserMedia requests not yet settled, per endpoint
    srcObject,      \* srcObject of the three media elements, per endpoint
    isMuted,        \* useState isMuted, per endpoint
    isCamOff,       \* useState isCamOff, per endpoint
    callDuration,   \* useState callDuration, per endpoint
    callTimerRef    \* useRef callTimerRef.current is an interval, per endpoint

vars ==
    <<status, connection, connectionRef, targetId, messages, conns, reads,
      callState, callMode, mediaCallRef, calls, lastData, now,
      localStreamRef, streams, acquiring, srcObject,
      isMuted, isCamOff, callDuration, callTimerRef>>

\* ---- bounds -------------------------------------------------------------

\* Log entries of the two endpoints together.
MaxLog == 2
\* Frames in flight in one direction of a connection; loads in flight.
MaxPending == 1
\* Connections created, where the controls do not limit them.
MaxConns == 2
\* Calls placed or received.
MaxCalls == 1
\* Seconds the call timer counts.
MaxTicks == 2

\* ---- the endpoints and what the user can enter --------------------------

\* The ids the two endpoints registered with the broker.
Endpoints == {"A", "B"}

Other(e) == CHOOSE o \in Endpoints : o # e

\* What the user types into the id field: blank, the other endpoint's id in
\* lower case, an id nobody registered.
TypedIds(e) == IF e = "A" THEN {" ", "b", "z"} ELSE {"a"}

\* What the user types into the text area.
InputTexts == {"", " ", "a", " b"}

\* The files the user can pick or drop: name, size, bytes.
File1 == [name |-> "f1", size |-> 1, bytes |-> <<7>>]
File2 == [name |-> "f2", size |-> 2, bytes |-> <<8, 9>>]
Drops == {<<File1>>, <<File1, File2>>}

\* String.prototype.toUpperCase and trim on the strings above.
ToUpperCase(s) ==
    CASE s = "a" -> "A" [] s = "b" -> "B" [] s = "z" -> "Z" [] s = " b" -> " B"
      [] OTHER -> s

Trim(s) ==
    CASE s = " " -> "" [] s = " b" -> "b" [] s = " B" -> "B" [] OTHER -> s

\* ---- log entries and frames ---------------------------------------------

\* A log that puts the newest entry first (not the component's: the order
\* claims must fail under it).
PrependMsg(log, m) == <<m>> \o log

\* [...prev, m]
AppendMsg(log, m) == Append(log, m)

\* A log entry. `via` is a history field, not a field of Message: the
\* connection whose handler or send produced the entry (0: none).
TextMessage(sender, text, c) ==
    [sender |-> sender, type |-> "text", content |-> <<text>>, via |-> c]

SystemMessage(content, c) ==
    [sender |-> "system", type |-> "system", content |-> content, via |-> c]

FileMessage(sender, note, name, size, data, c) ==
    [sender |-> sender, type |-> "file", content |-> <<note>>,
     fileName |-> name, fileSize |-> size, fileData |-> data, via |-> c]

\* The id of an entry: the clock, then the draw of Math.random() (0: the id
\* has none).  A draw is never repeated within a log; the entry's position
\* stands for it.
WithId(m, clock, random) == m @@ [id |-> <<clock, random>>]

\* Date.now().toString() + Math.random() for the next entry of e's log
RandomId(s, e, m) == WithId(m, s.now, Len(s.messages[e]) + 1)

\* Date.now().toString()
ClockId(s, m) == WithId(m, s.now, 0)

TextFrame(text) == [type |-> "text", content |-> text]

FileStartFrame(f) == [type |-> "file-start", fileName |-> f.name, fileSize |-> f.size]

FileFrame(f, data) ==
    [type |-> "file", file |-> data, fileName |-> f.name, fileSize |-> f.size]

\* A frame of a type this component never sends (a remote of another version).
OtherFrame == [type |-> "ping"]

\* ---- the state as a record ----------------------------------------------

Cur ==
    [status |-> status, connection |-> connection, connectionRef |-> connectionRef,
     targetId |-> targetId, messages |-> messages, conns |-> conns, reads |-> reads,
     callState |-> callState, callMode |-> callMode, mediaCallRef |-> mediaCallRef,
     calls |-> calls, lastData |-> lastData, now |-> now,
     localStreamRef |-> localStreamRef, streams |-> streams,
     acquiring |-> acquiring, srcObject |-> srcObject,
     isMuted |-> isMuted, isCamOff |-> isCamOff, callDuration |-> callDuration]

\* The video panel, with the elements localVideoRef and remoteVideoRef point
\* to, is rendered during a video call that is calling or active; the audio
\* element is always rendered.
VideoMounted(s, e) ==
    s.callState[e] \in {"calling", "active"} /\ s.callMode[e] = "video"

\* An effect that leaves the counter alone when the call state changes (not
\* the component's: the claim about the counter must fail under it).
CallTimerEffectKeeps(before, after, duration) == duration

\* The call timer effect, which runs when the rendered callState changed:
\* either branch sets the counter to 0.
CallTimerEffect(before, after, duration) ==
    IF before # after THEN 0 ELSE duration

\* The state after the handler, rendered: an element that is not rendered
\* takes its srcObject with it, and the call timer effect has run; the
\* interval exists exactly while the rendered call state is active.
Becomes(s) ==
    /\ status' = s.status
    /\ connection' = s.connection
    /\ connectionRef' = s.connectionRef
    /\ targetId' = s.targetId
    /\ messages' = s.messages
    /\ conns' = s.conns
    /\ reads' = s.reads
    /\ callState' = s.callState
    /\ callMode' = s.callMode
    /\ mediaCallRef' = s.mediaCallRef
    /\ calls' = s.calls
    /\ lastData' = s.lastData
    /\ now' = s.now
    /\ localStreamRef' = s.localStreamRef
    /\ streams' = s.streams
    /\ acquiring' = s.acquiring
    /\ srcObject' = [e \in Endpoints |->
            IF VideoMounted(s, e) THEN s.srcObject[e]
            ELSE [s.srcObject[e] EXCEPT !.localVideo = 0, !.remoteVideo = 0]]
    /\ isMuted' = s.isMuted
    /\ isCamOff' = s.isCamOff
    /\ callDuration' = [e \in Endpoints |->
            CallTimerEffect(callState[e], s.callState[e], s.callDuration[e])]
    /\ callTimerRef' = [e \in Endpoints |-> s.callState[e] = "active"]

ConnIds == DOMAIN conns

\* conn.peer at endpoint e: the id at the other end of connection c.
ConnPeer(s, e, c) ==
    IF s.conns[c].from = e THEN s.conns[c].to ELSE s.conns[c].from

\* ---- helpers of the component -------------------------------------------

setStatus(s, e, v) == [s EXCEPT !.status[e] = v]

\* A helper that writes the notice over the newest entry (not the
\* component's: the append-only claim must fail under it).
addSystemMessageOverwrites(s, e, content, c) ==
    [s EXCEPT !.messages[e] =
        IF @ = <<>> THEN <<RandomId(s, e, SystemMessage(content, c))>>
        ELSE [@ EXCEPT ![Len(@)] = RandomId(s, e, SystemMessage(content, c))]]

addSystemMessage(s, e, content, c) ==
    [s EXCEPT !.messages[e] = AppendMsg(@, RandomId(s, e, SystemMessage(content, c)))]

\* handleDataConnection, the part that runs at once: the new connection
\* replaces the stored handle; its four handlers are the On... below.
handleDataConnection(s, e, c) ==
    [s EXCEPT !.connectionRef[e] = c, !.connection[e] = c]

\* conn.on('open')
OnOpen(s, e, c) ==
    addSystemMessage(setStatus(s, e, "connected"), e,
                     <<"data channel established with", ConnPeer(s, e, c)>>, c)

\* A close handler that keeps the stored handle (not the component's: the
\* cleanup claim must fail under it).
OnCloseKeepsHandle(s, e, c) ==
    addSystemMessage([setStatus(s, e, "disconnected") EXCEPT !.connection[e] = 0],
                     e, <<"data channel closed">>, c)

\* conn.on('close')
OnClose(s, e, c) ==
    addSystemMessage(
        [setStatus(s, e, "disconnected") EXCEPT !.connection[e] = 0,
                                                !.connectionRef[e] = 0],
        e, <<"data channel closed">>, c)

\* conn.on('error')
OnError(s, e, c, message) ==
    addSystemMessage(
        [setStatus(s, e, "disconnected") EXCEPT !.connection[e] = 0,
                                                !.connectionRef[e] = 0],
        e, <<"connection error", message>>, c)

\* A dispatch that measures the payload instead of taking the declared size
\* (not the component's: the claim on received frames must fail under it).
DataDispatchMeasures(s, e, c, data) ==
    IF data.type = "text" THEN
        [s EXCEPT !.messages[e] =
            AppendMsg(@, RandomId(s, e, TextMessage("remote", data.content, c)))]
    ELSE IF data.type = "file-start" THEN
        addSystemMessage(s, e, <<ConnPeer(s, e, c), "is sending file", data.fileName>>, c)
    ELSE IF data.type = "file" THEN
        [s EXCEPT !.messages[e] =
            AppendMsg(@, RandomId(s, e, FileMessage("remote", "file received",
                                     data.fileName, Len(data.file), data.file, c)))]
    ELSE s

\* A dispatch that reports a frame it does not know (not the component's: the
\* claim on unknown frames must fail under it).
DataDispatchReports(s, e, c, data) ==
    IF data.type = "text" THEN
        [s EXCEPT !.messages[e] =
            AppendMsg(@, RandomId(s, e, TextMessage("remote", data.content, c)))]
    ELSE IF data.type = "file-start" THEN
        addSystemMessage(s, e, <<ConnPeer(s, e, c), "is sending file", data.fileName>>, c)
    ELSE IF data.type = "file" THEN
        [s EXCEPT !.messages[e] =
            AppendMsg(@, RandomId(s, e, FileMessage("remote", "file received",
                                     data.fileName, data.fileSize, data.file, c)))]
    ELSE addSystemMessage(s, e, <<"unknown frame", data.type>>, c)

\* conn.on('data'): the dispatch on the frame's type
DataDispatch(s, e, c, data) ==
    IF data.type = "text" THEN
        [s EXCEPT !.messages[e] =
            AppendMsg(@, RandomId(s, e, TextMessage("remote", data.content, c)))]
    ELSE IF data.type = "file-start" THEN
        addSystemMessage(s, e, <<ConnPeer(s, e, c), "is sending file", data.fileName>>, c)
    ELSE IF data.type = "file" THEN
        [s EXCEPT !.messages[e] =
            AppendMsg(@, RandomId(s, e, FileMessage("remote", "file received",
                                     data.fileName, data.fileSize, data.file, c)))]
    ELSE s

\* conn.on('data')
OnData(s, e, c, data) ==
    [DataDispatch(s, e, c, data) EXCEPT !.lastData[e] = data.type]

\* conn.send(frame) at endpoint e: an open connection hands the frame to the
\* channel; a connection that is not open raises its 'error' event at once.
ConnSend(s, e, c, frame) ==
    IF s.conns[c].st[e] = "open"
    THEN [s EXCEPT !.conns[c].q[Other(e)] = Append(@, frame)]
    ELSE OnError(s, e, c, "Connection is not open")

\* ---- Init ---------------------------------------------------------------

Init ==
    /\ status = [e \in Endpoints |-> "disconnected"]
    /\ connection = [e \in Endpoints |-> 0]
    /\ connectionRef = [e \in Endpoints |-> 0]
    /\ targetId = [e \in Endpoints |-> ""]
    /\ messages = [e \in Endpoints |-> <<>>]
    /\ conns = <<>>
    /\ reads = [e \in Endpoints |-> <<>>]
    /\ callState = [e \in Endpoints |-> "idle"]
    /\ callMode = [e \in Endpoints |-> "audio"]
    /\ mediaCallRef = [e \in Endpoints |-> 0]
    /\ calls = <<>>
    /\ lastData = [e \in Endpoints |-> "none"]
    /\ now = 0
    /\ localStreamRef = [e \in Endpoints |-> 0]
    /\ streams = <<>>
    /\ acquiring = [e \in Endpoints |-> <<>>]
    /\ srcObject = [e \in Endpoints |->
                        [localVideo |-> 0, remoteVideo |-> 0, remoteAudio |-> 0]]
    /\ isMuted = [e \in Endpoints |-> FALSE]
    /\ isCamOff = [e \in Endpoints |-> FALSE]
    /\ callDuration = [e \in Endpoints |-> 0]
    /\ callTimerRef = [e \in Endpoints |-> FALSE]

\* ---- the user's operations ----------------------------------------------

\* onChange of the id field
setTargetId(e, v) ==
    Becomes([Cur EXCEPT !.targetId[e] = ToUpperCase(v)])

\* The id field is disabled while connected.
TargetIdEnabled(e) == status[e] # "connected"

NewConn(e, to) ==
    [from |-> e, to |-> to,
     st |-> [x \in Endpoints |-> IF x = e THEN "pending" ELSE "none"],
     q |-> [x \in Endpoints |-> <<>>],
     expired |-> FALSE]

connectToPeerGuard(e) == Trim(targetId[e]) # ""

connectToPeer(e) ==
    IF ~connectToPeerGuard(e) THEN UNCHANGED vars
    ELSE LET c == Len(conns) + 1
             s1 == setStatus(Cur, e, "connecting")
             s2 == [s1 EXCEPT !.conns = Append(@, NewConn(e, Trim(targetId[e])))]
         IN  Becomes(handleDataConnection(s2, e, c))

\* A connect button that is disabled only by an empty id (not the
\* component's: the lifecycle claim must fail under it).
ConnectEnabledAnyStatus(e) == ~(targetId[e] = "")

\* The connect button's disabled attribute.
ConnectEnabled(e) ==
    ~(targetId[e] = "" \/ status[e] = "connected" \/ status[e] = "connecting")

\* ---- events of the broker and of the connections ------------------------

\* peer.on('connection'): the offer of connection c reaches its target.
PeerConnection(e, c) ==
    /\ c \in ConnIds
    /\ conns[c].to = e
    /\ conns[c].from # e
    /\ conns[c].st[e] = "none"
    /\ conns[c].st[conns[c].from] = "pending"
    /\ Becomes(handleDataConnection([Cur EXCEPT !.conns[c].st[e] = "pending"], e, c))

\* The data channel of c opens at endpoint e.
ConnOpen(e, c) ==
    /\ c \in ConnIds
    /\ conns[c].st[e] = "pending"
    /\ conns[c].st[Other(e)] \in {"pending", "open"}
    /\ Becomes(OnOpen([Cur EXCEPT !.conns[c].st[e] = "open"], e, c))

\* The data channel of c closes at endpoint e (the remote side closed it, or
\* the transport failed): frames still on their way to e are gone.
ConnClose(e, c) ==
    /\ c \in ConnIds
    /\ conns[c].st[e] = "open"
    /\ Becomes(OnClose([Cur EXCEPT !.conns[c].st[e] = "closed",
                                   !.conns[c].q[e] = <<>>], e, c))

\* Connection c reports an error at endpoint e. A connection that fails
\* before it opened is dead afterwards; an open one may go on or close later.
ConnError(e, c) ==
    /\ c \in ConnIds
    /\ conns[c].st[e] \in {"pending", "open"}
    /\ LET st == IF conns[c].st[e] = "pending" THEN "closed" ELSE "open"
       IN  Becomes(OnError([Cur EXCEPT !.conns[c].st[e] = st], e, c, "transport failure"))

\* An error handler of the broker that leaves status as it is (not the
\* component's: the claim on unregistered ids must fail under it).
OnPeerErrorKeepsStatus(s, e, type, message) ==
    [s EXCEPT !.messages[e] =
        AppendMsg(@, ClockId(s, SystemMessage(
            <<"connection problem",
              IF type = "peer-unavailable" THEN "id not found, check the peer is online"
              ELSE message>>, 0)))]

\* peer.on('error')
OnPeerError(s, e, type, message) ==
    [setStatus(s, e, "disconnected") EXCEPT !.messages[e] =
        AppendMsg(@, ClockId(s, SystemMessage(
            <<"connection problem",
              IF type = "peer-unavailable" THEN "id not found, check the peer is online"
              ELSE message>>, 0)))]

\* The broker reports that the target of connection c is not registered.
PeerUnavailable(e, c) ==
    /\ c \in ConnIds
    /\ conns[c].from = e
    /\ conns[c].to \notin Endpoints
    /\ ~conns[c].expired
    /\ Becomes(OnPeerError([Cur EXCEPT !.conns[c].expired = TRUE], e,
                           "peer-unavailable", "Could not connect to peer"))

\* Any other error of the broker connection.
PeerNetworkError(e) ==
    Becomes(OnPeerError(Cur, e, "network", "Lost connection to server"))

\* A frame reaches endpoint e over connection c: the oldest one in flight.
RecvData(e, c) ==
    /\ c \in ConnIds
    /\ conns[c].st[e] = "open"
    /\ conns[c].q[e] # <<>>
    /\ Becomes(OnData([Cur EXCEPT !.conns[c].q[e] = Tail(@)], e, c, Head(conns[c].q[e])))

\* ---- sending --------------------------------------------------------------

sendMessage(e, inputText) ==
    LET conn == connectionRef[e] IN
    IF conn = 0 \/ Trim(inputText) = "" THEN UNCHANGED vars
    ELSE LET s1 == ConnSend(Cur, e, conn, TextFrame(inputText))
         IN  Becomes([s1 EXCEPT !.messages[e] =
                         AppendMsg(@, RandomId(s1, e, TextMessage("me", inputText, conn)))])

\* The text area and the send button are disabled unless connected.
SendEnabled(e) == status[e] = "connected"

\* sendFile up to reader.readAsArrayBuffer: the file-start frame, and a load
\* in flight that remembers the connection.
sendFile(s, e, file) ==
    LET conn == s.connectionRef[e] IN
    IF conn = 0 THEN s
    ELSE [ConnSend(s, e, conn, FileStartFrame(file)) EXCEPT
             !.reads[e] = Append(@, [conn |-> conn, file |-> file])]

\* reader.onload of the i-th load in flight at e
FileLoaded(e, i) ==
    /\ i \in DOMAIN reads[e]
    /\ LET r == reads[e][i]
           s1 == [Cur EXCEPT !.reads[e] =
                     SubSeq(@, 1, i - 1) \o SubSeq(@, i + 1, Len(@))]
           s2 == ConnSend(s1, e, r.conn, FileFrame(r.file, r.file.bytes))
       IN  Becomes([s2 EXCEPT !.messages[e] =
                      AppendMsg(@, RandomId(s2, e, FileMessage("me", "file sent",
                                   r.file.name, r.file.size, r.file.bytes, r.conn)))])

handleFileUpload(e, file) == Becomes(sendFile(Cur, e, file))

\* The attach button is disabled unless connected.
AttachEnabled(e) == status[e] = "connected"

RECURSIVE SendFiles(_, _, _)
SendFiles(s, e, files) ==
    IF files = <<>> THEN s
    ELSE SendFiles(sendFile(s, e, Head(files)), e, Tail(files))

handleDrop(e, files) ==
    IF status[e] # "connected" THEN UNCHANGED vars
    ELSE Becomes(SendFiles(Cur, e, files))

\* ---- a remote that need not be this component --------------------------

\* The frames a remote can send: the three types, and another one.
\* The file frame declares a size that is not its payload's length.
AnyFrames ==
    {TextFrame("a"), FileStartFrame(File1),
     [type |-> "file", file |-> <<7>>, fileName |-> "f1", fileSize |-> 3],
     OtherFrame}

\* peer.on('connection') for a connection a remote peer initiated.
RemoteOffer(e) ==
    LET c == Len(conns) + 1
        n == [NewConn(Other(e), e) EXCEPT !.st[e] = "pending", !.st[Other(e)] = "open"]
    IN  Becomes(handleDataConnection([Cur EXCEPT !.conns = Append(@, n)], e, c))

\* The remote accepts connection c, which endpoint e initiated.
RemoteAccept(e, c) ==
    /\ c \in ConnIds
    /\ conns[c].from = e
    /\ conns[c].to = Other(e)
    /\ conns[c].st[Other(e)] = "none"
    /\ conns[c].st[e] = "pending"
    /\ Becomes([Cur EXCEPT !.conns[c].st[Other(e)] = "open"])

\* conn.on('data') with a frame the remote sent over connection c.
RemoteData(e, c, frame) ==
    /\ c \in ConnIds
    /\ conns[c].st[e] = "open"
    /\ Becomes(OnData(Cur, e, c, frame))

\* The remote takes the oldest frame endpoint e sent over connection c.
RemoteTakes(e, c) ==
    /\ c \in ConnIds
    /\ conns[c].q[Other(e)] # <<>>
    /\ Becomes([Cur EXCEPT !.conns[c].q[Other(e)] = Tail(@)])

\* ---- calls -----------------------------------------------------------------

\* What call.metadata can hold: nothing, or a mode.
CallMetadata == {"none", "audio", "video"}

CallIds == DOMAIN calls

\* A MediaConnection from one endpoint to an id.  st is the state of each
\* end ("none": the end does not have the call yet; "ringing": not answered;
\* "open"; "closed"); wired counts the handler sets setupMediaCall attached
\* at each end; streamed tells whether the 'stream' event fired there.
NewCall(from, to, mode) ==
    [from |-> from, to |-> to, mode |-> mode,
     st |-> [x \in Endpoints |-> IF x = from THEN "ringing" ELSE "none"],
     wired |-> [x \in Endpoints |-> 0],
     streamed |-> [x \in Endpoints |-> FALSE]]

stopLocalStream(s, e) ==
    IF s.localStreamRef[e] = 0 THEN s
    ELSE [s EXCEPT !.streams[s.localStreamRef[e]].live = FALSE,
                   !.localStreamRef[e] = 0]

\* attachStream(ref, stream): nothing when the element is not rendered.  The
\* refs are those of the last render, before the handler that is running.
attachStream(s, e, element, stream) ==
    IF element \in {"localVideo", "remoteVideo"} /\ ~VideoMounted(Cur, e) THEN s
    ELSE [s EXCEPT !.srcObject[e][element] = stream]

handleCallEnded(s, e, reason) ==
    LET s1 == stopLocalStream(s, e)
        s2 == [s1 EXCEPT !.srcObject[e] =
                            [localVideo |-> 0, remoteVideo |-> 0, remoteAudio |-> 0],
                         !.mediaCallRef[e] = 0,
                         !.callState[e] = "idle",
                         !.isMuted[e] = FALSE,
                         !.isCamOff[e] = FALSE]
    IN  addSystemMessage(s2, e, reason, 0)

\* call.on('stream') as setupMediaCall registers it
OnStream(s, e, k) ==
    LET s1 == IF s.calls[k].mode = "video"
              THEN attachStream(s, e, "remoteVideo", k)
              ELSE attachStream(s, e, "remoteAudio", k)
    IN  addSystemMessage([s1 EXCEPT !.callState[e] = "active"], e, <<"call connected">>, 0)

\* call.on('close')
OnCallClose(s, e, k) == handleCallEnded(s, e, <<"peer hung up">>)

\* call.on('error')
OnCallError(s, e, k) == handleCallEnded(s, e, <<"call error", "failure">>)

\* An event of call k at endpoint e runs every handler registered for it,
\* one per setupMediaCall on that call.
RECURSIVE Emit(_, _, _, _, _)
Emit(s, e, k, event, n) ==
    IF n = 0 THEN s
    ELSE LET s1 == CASE event = "stream" -> OnStream(s, e, k)
                     [] event = "close" -> OnCallClose(s, e, k)
                     [] event = "error" -> OnCallError(s, e, k)
         IN  Emit(s1, e, k, event, n - 1)

\* setupMediaCall(call, localStream)
setupMediaCall(s, e, k) == [s EXCEPT !.calls[k].wired[e] = @ + 1]

\* mediaCallRef.current?.close(): an open call closes and says so at once;
\* a call that is not open is torn down without an event.
MediaClose(s, e) ==
    LET k == s.mediaCallRef[e] IN
    IF k = 0 THEN s
    ELSE IF s.calls[k].st[e] = "open"
         THEN Emit([s EXCEPT !.calls[k].st[e] = "closed"], e, k, "close",
                   s.calls[k].wired[e])
         ELSE [s EXCEPT !.calls[k].st[e] = "closed"]

\* peer.on('call') with call k
OnCall(s, e, k) ==
    LET mode == s.calls[k].mode
        s1 == [s EXCEPT !.mediaCallRef[e] = k,
                        !.callMode[e] = mode,
                        !.callState[e] = "incoming"]
    IN  addSystemMessage(s1, e, <<"call request from", s.calls[k].from, mode>>, 0)

\* peer.on('call'): a remote peer calls endpoint e.
PeerCall(e, metadata) ==
    LET k == Len(calls) + 1
        mode == IF metadata = "none" THEN "audio" ELSE metadata
        call == [NewCall(Other(e), e, mode) EXCEPT !.st[e] = "ringing"]
    IN  Becomes(OnCall([Cur EXCEPT !.calls = Append(@, call)], e, k))

startCallGuard(e) == Trim(targetId[e]) # ""

\* startCall up to the await of getUserMedia
startCall(e, mode) ==
    IF ~startCallGuard(e) THEN UNCHANGED vars
    ELSE Becomes([Cur EXCEPT !.callMode[e] = mode,
                             !.callState[e] = "calling",
                             !.acquiring[e] =
                                 Append(@, [op |-> "start", mode |-> mode,
                                            target |-> Trim(targetId[e]), call |-> 0])])

\* The call buttons are rendered while connected and idle.
CallButtonsShown(e) == status[e] = "connected" /\ callState[e] = "idle"

\* answerCall up to the await of getUserMedia
answerCall(e) ==
    IF mediaCallRef[e] = 0 THEN UNCHANGED vars
    ELSE Becomes([Cur EXCEPT !.acquiring[e] =
                                 Append(@, [op |-> "answer", mode |-> callMode[e],
                                            target |-> "", call |-> mediaCallRef[e]])])

\* A catch that reports the failure and leaves the call state as it is.
MediaCatchKeepsState(s, e) ==
    addSystemMessage(s, e, <<"cannot get media device">>, 0)

\* The catch of startCall and of answerCall
MediaCatch(s, e) ==
    addSystemMessage([s EXCEPT !.callState[e] = "idle"], e,
                     <<"cannot get media device">>, 0)

\* startCall after getUserMedia resolved
startCallResumes(s, e, r, stream) ==
    LET k == Len(s.calls) + 1
        s1 == [s EXCEPT !.localStreamRef[e] = stream]
        s2 == IF r.mode = "video" THEN attachStream(s1, e, "localVideo", stream) ELSE s1
        s3 == [s2 EXCEPT !.calls = Append(@, NewCall(e, r.target, r.mode)),
                         !.mediaCallRef[e] = k]
    IN  addSystemMessage(setupMediaCall(s3, e, k), e, <<"calling", r.target, r.mode>>, 0)

\* answerCall after getUserMedia resolved.  call.answer on a call that was
\* closed in the meantime may throw (throws), which the catch takes; on a
\* call already answered it does nothing.
answerCallResumes(s, e, r, stream, throws) ==
    LET k == r.call
        s1 == [s EXCEPT !.localStreamRef[e] = stream]
        s2 == IF r.mode = "video" THEN attachStream(s1, e, "localVideo", stream) ELSE s1
    IN  IF throws THEN MediaCatch(s2, e)
        ELSE setupMediaCall(
                 IF s2.calls[k].st[e] = "ringing"
                 THEN [s2 EXCEPT !.calls[k].st[e] = "open"] ELSE s2,
                 e, k)

\* A MediaStream getUserMedia returned for { audio: true, video: mode ===
\* 'video' }: an audio track and, for video, a video track, enabled and live.
NewStream(e, mode) ==
    [owner |-> e, live |-> TRUE, audio |-> TRUE,
     hasVideo |-> (mode = "video"), video |-> TRUE]

Without(seq, i) == SubSeq(seq, 1, i - 1) \o SubSeq(seq, i + 1, Len(seq))

\* getUserMedia resolves for the i-th request of e.
MediaGranted(e, i, throws) ==
    /\ i \in DOMAIN acquiring[e]
    /\ LET r == acquiring[e][i]
           stream == Len(streams) + 1
           s1 == [Cur EXCEPT !.acquiring[e] = Without(@, i),
                             !.streams = Append(@, NewStream(e, r.mode))]
       IN  /\ throws => (r.op = "answer" /\ calls[r.call].st[e] = "closed")
           /\ Becomes(IF r.op = "start" THEN startCallResumes(s1, e, r, stream)
                      ELSE answerCallResumes(s1, e, r, stream, throws))

\* getUserMedia rejects for the i-th request of e.
MediaDenied(e, i) ==
    /\ i \in DOMAIN acquiring[e]
    /\ Becomes(MediaCatch([Cur EXCEPT !.acquiring[e] = Without(@, i)], e))

rejectCall(e) ==
    LET s1 == MediaClose(Cur, e)
        s2 == [s1 EXCEPT !.mediaCallRef[e] = 0, !.callState[e] = "idle"]
    IN  Becomes(addSystemMessage(s2, e, <<"call rejected">>, 0))

hangUp(e) == Becomes(handleCallEnded(MediaClose(Cur, e), e, <<"call ended">>))

\* toggleMute, which reads isMuted as it was at the last render.
toggleMute(s, e, rendered) ==
    IF s.localStreamRef[e] = 0 THEN s
    ELSE [s EXCEPT !.streams[s.localStreamRef[e]].audio = rendered.isMuted[e],
                   !.isMuted[e] = ~@]

\* toggleCamera, which reads isCamOff as it was at the last render; only a
\* stream acquired for video has a video track.
toggleCamera(s, e, rendered) ==
    IF s.localStreamRef[e] = 0 THEN s
    ELSE [s EXCEPT !.streams[s.localStreamRef[e]].video =
                        IF s.streams[s.localStreamRef[e]].hasVideo
                        THEN rendered.isCamOff[e] ELSE @,
                   !.isCamOff[e] = ~@]

\* The mute button is rendered while active, the camera button while active
\* in a video call.
MuteShown(e) == callState[e] = "active"

CameraShown(e) == callState[e] = "active" /\ callMode[e] = "video"

\* A click on the mute button, a click on the camera button.
ClickMute(e) == Becomes(toggleMute(Cur, e, Cur))

ClickCamera(e) == Becomes(toggleCamera(Cur, e, Cur))

\* One second passes on the interval of the call timer.
TimerTick(e) ==
    /\ callTimerRef[e]
    /\ Becomes([Cur EXCEPT !.callDuration[e] = @ + 1])

\* The cancel and hang-up buttons are rendered while calling or active.
HangUpShown(e) == callState[e] \in {"calling", "active"}

\* The 'stream' event of call k at endpoint e: the remote media arrives once
\* the call is answered.
CallStream(e, k) ==
    /\ k \in CallIds
    /\ e \in {calls[k].from, calls[k].to}
    /\ ~calls[k].streamed[e]
    /\ IF calls[k].from = e
       THEN calls[k].st[e] \in {"ringing", "open"} /\ calls[k].st[Other(e)] = "open"
       ELSE calls[k].st[e] = "open" /\ calls[k].st[Other(e)] \in {"ringing", "open"}
    /\ Becomes(Emit([Cur EXCEPT !.calls[k].st[e] = "open",
                                !.calls[k].streamed[e] = TRUE],
                    e, k, "stream", calls[k].wired[e]))

\* The 'close' event of call k at endpoint e: the media session of an open
\* call ended (the other side closed it, or the transport failed).
CallClose(e, k) ==
    /\ k \in CallIds
    /\ calls[k].st[e] = "open"
    /\ Becomes(Emit([Cur EXCEPT !.calls[k].st[e] = "closed"], e, k, "close",
                    calls[k].wired[e]))

\* The 'error' event of call k at endpoint e: the negotiation failed.  The
\* library reports the error and closes the call, which an open call reports
\* as well.
CallError(e, k) ==
    /\ k \in CallIds
    /\ calls[k].st[e] \in {"ringing", "open"}
    /\ calls[k].wired[e] > 0
    /\ LET s1 == Emit(Cur, e, k, "error", calls[k].wired[e])
           s2 == [s1 EXCEPT !.calls[k].st[e] = "closed"]
       IN  Becomes(IF calls[k].st[e] = "open"
                   THEN Emit(s2, e, k, "close", calls[k].wired[e]) ELSE s2)

\* The remote answers call k, which endpoint e placed.
RemoteAnswers(e, k) ==
    /\ k \in CallIds
    /\ calls[k].from = e
    /\ calls[k].to = Other(e)
    /\ calls[k].st[e] = "ringing"
    /\ calls[k].st[Other(e)] = "none"
    /\ Becomes([Cur EXCEPT !.calls[k].st[Other(e)] = "open"])

\* peer.on('call'): the offer of call k, placed by the other endpoint,
\* reaches endpoint e.
CallOffer(e, k) ==
    /\ k \in CallIds
    /\ calls[k].to = e
    /\ calls[k].from # e
    /\ calls[k].st[e] = "none"
    /\ calls[k].st[calls[k].from] = "ringing"
    /\ Becomes(OnCall([Cur EXCEPT !.calls[k].st[e] = "ringing"], e, k))

\* The answer and reject buttons are rendered while a call is incoming.
IncomingShown(e) == callState[e] = "incoming"

\* ---- the specifications -------------------------------------------------

\* The bounds of a specification: log entries of the two endpoints together,
\* connections created, frames in flight per direction, loads in flight.
Within(maxLog, maxConns, maxPending) ==
    /\ Len(messages["A"]) + Len(messages["B"]) <= maxLog
    /\ Len(conns) <= maxConns
    /\ \A e \in Endpoints : Len(reads[e]) <= maxPending
    /\ \A c \in ConnIds : \A e \in Endpoints : Len(conns[c].q[e]) <= maxPending

\* The endpoint that runs the component when the remote is arbitrary.
Local == {"A"}

\* The controls, each operation under its disabled attribute.
ConnectControls(E) ==
    \/ \E e \in E : \E v \in TypedIds(e) : TargetIdEnabled(e) /\ setTargetId(e, v)
    \/ \E e \in E : ConnectEnabled(e) /\ connectToPeer(e)

TextControls(E) ==
    \E e \in E : \E t \in InputTexts : SendEnabled(e) /\ sendMessage(e, t)

FileControls(E) ==
    \/ \E e \in E : \E f \in {File1} : AttachEnabled(e) /\ handleFileUpload(e, f)
    \/ \E e \in E : \E fs \in Drops : handleDrop(e, fs)

\* The operations called whatever the controls show.
Operations(E) ==
    \/ \E e \in E : \E v \in TypedIds(e) : setTargetId(e, v)
    \/ \E e \in E : connectToPeer(e)
    \/ \E e \in E : \E t \in InputTexts : sendMessage(e, t)
    \/ \E e \in E : \E f \in {File1} : handleFileUpload(e, f)
    \/ \E e \in E : \E fs \in Drops : handleDrop(e, fs)
    \/ \E e \in E : rejectCall(e)

\* The events of the component's own connections and broker.
ConnEvents(E) ==
    \/ \E e \in E : \E c \in ConnIds : ConnOpen(e, c)
    \/ \E e \in E : \E c \in ConnIds : ConnClose(e, c)
    \/ \E e \in E : \E c \in ConnIds : ConnError(e, c)

BrokerEvents(E) ==
    \/ \E e \in E : \E c \in ConnIds : PeerUnavailable(e, c)
    \/ \E e \in E : PeerNetworkError(e)

FileEvents(E) ==
    \E e \in E : \E i \in DOMAIN reads[e] : FileLoaded(e, i)

CallControls(E) ==
    \E e \in E : IncomingShown(e) /\ rejectCall(e)

\* A remote that is any peer.
Remote(E) ==
    \/ \E e \in E : \E m \in CallMetadata : PeerCall(e, m)
    \/ \E e \in E : RemoteOffer(e)
    \/ \E e \in E : \E c \in ConnIds : RemoteAccept(e, c)
    \/ \E e \in E : \E c \in ConnIds : \E f \in AnyFrames : RemoteData(e, c, f)
    \/ \E e \in E : \E c \in ConnIds : RemoteTakes(e, c)

\* Offers and frames between two endpoints that run the component.
Transport ==
    \/ \E e \in Endpoints : \E c \in ConnIds : PeerConnection(e, c)
    \/ \E e \in Endpoints : \E c \in ConnIds : RecvData(e, c)

\* One endpoint runs the component behind its controls; its remote is any
\* peer.  The user sends texts; files are sent in the specifications below.
Next ==
    /\ \/ ConnectControls(Local) \/ TextControls(Local) \/ CallControls(Local)
       \/ ConnEvents(Local) \/ BrokerEvents(Local)
       \/ Remote(Local)
    /\ Within(MaxLog, MaxConns, MaxPending)'

Spec == Init /\ [][Next]_vars

\* The same, the operations called whatever the controls show, files
\* included (a drop of two files has two loads in flight).
NextDirect ==
    /\ \/ Operations(Local)
       \/ ConnEvents(Local) \/ BrokerEvents(Local) \/ FileEvents(Local)
       \/ Remote(Local)
    /\ Within(MaxLog, MaxConns, MaxPending + 1)'

SpecDirect == Init /\ [][NextDirect]_vars

\* A remote that runs the component: offers and frames travel.  Both
\* endpoints are registered and the broker stays reachable.
PairControls ==
    \/ \E e \in Endpoints : TargetIdEnabled(e) /\ setTargetId(e, IF e = "A" THEN "b" ELSE "a")
    \/ \E e \in Endpoints : ConnectEnabled(e) /\ connectToPeer(e)

\* Both endpoints run the component and exchange texts over one connection
\* at a time.
NextPair ==
    /\ \/ PairControls \/ TextControls(Endpoints)
       \/ ConnEvents(Endpoints) \/ Transport
    /\ Within(MaxLog + 4, MaxConns - 1, MaxPending)'

SpecPair == Init /\ [][NextPair]_vars

\* The same with as many connections as the one-endpoint specifications.
NextPairConns ==
    /\ \/ PairControls \/ TextControls(Endpoints)
       \/ ConnEvents(Endpoints) \/ Transport
    /\ Within(MaxLog + 2, MaxConns, MaxPending)'

SpecPairConns == Init /\ [][NextPairConns]_vars

\* Both endpoints run the component and exchange files; no connection
\* reports an error of the transport.
OpenClose(E) ==
    \/ \E e \in E : \E c \in ConnIds : ConnOpen(e, c)
    \/ \E e \in E : \E c \in ConnIds : ConnClose(e, c)

NextPairFiles ==
    /\ \/ PairControls \/ FileControls(Endpoints)
       \/ OpenClose(Endpoints) \/ FileEvents(Endpoints) \/ Transport
    /\ Within(MaxLog + 4, MaxConns, MaxPending + 1)'

SpecPairFiles == Init /\ [][NextPairFiles]_vars

\* The operations called whatever the controls show, files picked one at a
\* time.
OperationsOne(E) ==
    \/ \E e \in E : \E v \in TypedIds(e) : setTargetId(e, v)
    \/ \E e \in E : connectToPeer(e)
    \/ \E e \in E : \E t \in InputTexts : sendMessage(e, t)
    \/ \E e \in E : \E f \in {File1} : handleFileUpload(e, f)
    \/ \E e \in E : rejectCall(e)

\* The remote's part in the data connections.
RemoteConn(E) ==
    \/ \E e \in E : RemoteOffer(e)
    \/ \E e \in E : \E c \in ConnIds : RemoteAccept(e, c)
    \/ \E e \in E : \E c \in ConnIds : \E f \in AnyFrames : RemoteData(e, c, f)
    \/ \E e \in E : \E c \in ConnIds : RemoteTakes(e, c)

\* One endpoint, its operations called directly, one connection at a time.
NextDirectOne ==
    /\ \/ OperationsOne(Local)
       \/ ConnEvents(Local) \/ BrokerEvents(Local) \/ FileEvents(Local)
       \/ RemoteConn(Local)
    /\ Within(MaxLog, MaxConns - 1, MaxPending)'

SpecDirectOne == Init /\ [][NextDirectOne]_vars

\* A millisecond passes.
Tick == Becomes([Cur EXCEPT !.now = @ + 1])

\* The component behind its controls, with the clock running: at most as
\* many milliseconds pass as the log has room for entries.
NextIds ==
    /\ \/ ConnectControls(Local) \/ TextControls(Local) \/ CallControls(Local)
       \/ ConnEvents(Local) \/ BrokerEvents(Local)
       \/ Remote(Local)
       \/ Tick
    /\ Within(MaxLog, MaxConns, MaxPending)'
    /\ now' <= MaxLog

SpecIds == Init /\ [][NextIds]_vars

\* ---- the specifications with calls ---------------------------------------

\* The bounds on calls: calls created, streams acquired, requests for the
\* media device not yet settled.
WithinCalls(maxCalls, maxStreams, maxAcquiring) ==
    /\ Len(calls) <= maxCalls
    /\ Len(streams) <= maxStreams
    /\ \A e \in Endpoints : Len(acquiring[e]) <= maxAcquiring

\* The call buttons, each rendered in its call state.
CallButtons(E) ==
    \/ \E e \in E : \E m \in {"audio", "video"} : CallButtonsShown(e) /\ startCall(e, m)
    \/ \E e \in E : HangUpShown(e) /\ hangUp(e)
    \/ \E e \in E : IncomingShown(e) /\ answerCall(e)
    \/ \E e \in E : IncomingShown(e) /\ rejectCall(e)

\* The call operations called whatever the buttons show.
CallOperations(E) ==
    \/ \E e \in E : \E m \in {"audio", "video"} : startCall(e, m)
    \/ \E e \in E : hangUp(e)
    \/ \E e \in E : answerCall(e)
    \/ \E e \in E : rejectCall(e)

MediaEvents(E) ==
    \/ \E e \in E : \E i \in DOMAIN acquiring[e] : \E throws \in BOOLEAN :
          MediaGranted(e, i, throws)
    \/ \E e \in E : \E i \in DOMAIN acquiring[e] : MediaDenied(e, i)

CallEvents(E) ==
    \/ \E e \in E : \E k \in CallIds : CallStream(e, k)
    \/ \E e \in E : \E k \in CallIds : CallClose(e, k)
    \/ \E e \in E : \E k \in CallIds : CallError(e, k)

\* The remote's part in calls, the remote being any peer.
RemoteCalls(E) ==
    \/ \E e \in E : \E m \in CallMetadata : PeerCall(e, m)
    \/ \E e \in E : \E k \in CallIds : RemoteAnswers(e, k)

\* The data connection of the endpoint that places calls: it connects to the
\* other endpoint and the connection opens and stays up.
ConnectsOnce(E) ==
    \/ \E e \in E : TargetIdEnabled(e) /\ setTargetId(e, IF e = "A" THEN "b" ELSE "a")
    \/ \E e \in E : ConnectEnabled(e) /\ connectToPeer(e)
    \/ \E e \in E : \E c \in ConnIds : RemoteAccept(e, c)
    \/ \E e \in E : \E c \in ConnIds : ConnOpen(e, c)

\* One endpoint runs the component behind its buttons and takes part in
\* calls; its remote is any peer.
NextCall ==
    /\ \/ ConnectsOnce(Local) \/ CallButtons(Local)
       \/ MediaEvents(Local) \/ CallEvents(Local) \/ RemoteCalls(Local)
    /\ Within(MaxLog + 2, MaxConns - 1, MaxPending)'
    /\ WithinCalls(MaxCalls, MaxCalls, MaxPending)'

SpecCall == Init /\ [][NextCall]_vars

\* The same with the seconds of the call timer passing.
NextCallTimed ==
    /\ \/ ConnectsOnce(Local) \/ CallButtons(Local)
       \/ MediaEvents(Local) \/ CallEvents(Local) \/ RemoteCalls(Local)
       \/ \E e \in Local : TimerTick(e)
    /\ Within(MaxLog + 2, MaxConns - 1, MaxPending)'
    /\ WithinCalls(MaxCalls, MaxCalls, MaxPending)'
    /\ \A e \in Endpoints : callDuration'[e] <= MaxTicks

SpecCallTimed == Init /\ [][NextCallTimed]_vars

\* The same with a longer log and a second request for the media device,
\* for the calls whose handlers were attached twice and report each event
\* twice.
NextCallLong ==
    /\ \/ ConnectsOnce(Local) \/ CallButtons(Local)
       \/ MediaEvents(Local) \/ CallEvents(Local) \/ RemoteCalls(Local)
    /\ Within(MaxLog + 3, MaxConns - 1, MaxPending)'
    /\ WithinCalls(MaxCalls, MaxCalls + 1, MaxPending + 1)'

SpecCallLong == Init /\ [][NextCallLong]_vars

\* The mute and camera buttons.
InCallButtons(E) ==
    \/ \E e \in E : MuteShown(e) /\ ClickMute(e)
    \/ \E e \in E : CameraShown(e) /\ ClickCamera(e)

\* The component behind its buttons with the in-call controls and a second
\* request for the media device.
NextCallToggles ==
    /\ \/ ConnectsOnce(Local) \/ CallButtons(Local) \/ InCallButtons(Local)
       \/ MediaEvents(Local) \/ CallEvents(Local) \/ RemoteCalls(Local)
    /\ Within(MaxLog + 2, MaxConns - 1, MaxPending)'
    /\ WithinCalls(MaxCalls, MaxCalls + 1, MaxPending + 1)'

SpecCallToggles == Init /\ [][NextCallToggles]_vars

\* The same, the call operations called whatever the buttons show.
NextCallDirect ==
    /\ \/ ConnectsOnce(Local) \/ CallOperations(Local)
       \/ MediaEvents(Local) \/ CallEvents(Local) \/ RemoteCalls(Local)
    /\ Within(MaxLog + 2, MaxConns - 1, MaxPending)'
    /\ WithinCalls(MaxCalls, MaxCalls, MaxPending + 1)'

SpecCallDirect == Init /\ [][NextCallDirect]_vars

\* Both endpoints run the component: A connects to B and places calls, B
\* takes them.  The offer of a call travels to B; the remote stream reaches
\* an end once both ends have the call and it was answered.
PairCallSetup ==
    \/ TargetIdEnabled("A") /\ setTargetId("A", "b")
    \/ ConnectEnabled("A") /\ connectToPeer("A")
    \/ \E c \in ConnIds : PeerConnection("B", c)
    \/ \E e \in Endpoints : \E c \in ConnIds : ConnOpen(e, c)

PairCallButtons ==
    \/ \E m \in {"audio", "video"} : CallButtonsShown("A") /\ startCall("A", m)
    \/ \E e \in Endpoints : HangUpShown(e) /\ hangUp(e)
    \/ IncomingShown("B") /\ answerCall("B")
    \/ IncomingShown("B") /\ rejectCall("B")

PairCallBounds ==
    /\ Within(MaxLog + 4, MaxConns - 1, MaxPending)
    /\ WithinCalls(MaxCalls, MaxCalls + 1, MaxPending)

\* What the network and the media device do sooner or later.
CallOffers == (\E k \in CallIds : CallOffer("B", k)) /\ PairCallBounds'

MediaSettles == MediaEvents(Endpoints) /\ PairCallBounds'

CallStreams == (\E e \in Endpoints : \E k \in CallIds : CallStream(e, k)) /\ PairCallBounds'

NextPairCall ==
    /\ \/ PairCallSetup \/ PairCallButtons
       \/ MediaEvents(Endpoints) \/ CallEvents(Endpoints)
       \/ \E k \in CallIds : CallOffer("B", k)
    /\ PairCallBounds'

\* The users click or not; an offer sent is delivered, a request for the
\* media device is settled, the stream of an answered call arrives.
SpecPairCallFair ==
    /\ Init /\ [][NextPairCall]_vars
    /\ WF_vars(CallOffers) /\ WF_vars(MediaSettles) /\ WF_vars(CallStreams)

\* The close of an open call whose other end was closed reaches this end.
CallCloses ==
    /\ \E e \in Endpoints : \E k \in CallIds :
          calls[k].st[Other(e)] = "closed" /\ CallClose(e, k)
    /\ PairCallBounds'

\* The same, and the close of a call is reported to the end still open.
SpecPairCallFairClose == SpecPairCallFair /\ WF_vars(CallCloses)

\* Both endpoints run the component and either may place a call: A typed
\* B's id and connected, B accepted the connection.
PairCallBothButtons ==
    \/ \E e \in Endpoints : \E m \in {"audio", "video"} :
          CallButtonsShown(e) /\ startCall(e, m)
    \/ \E e \in Endpoints : HangUpShown(e) /\ hangUp(e)
    \/ \E e \in Endpoints : IncomingShown(e) /\ answerCall(e)
    \/ \E e \in Endpoints : IncomingShown(e) /\ rejectCall(e)

CallOffersBoth ==
    /\ \E e \in Endpoints : \E k \in CallIds : CallOffer(e, k)
    /\ PairCallBounds'

NextPairCallBoth ==
    /\ \/ PairCallSetup \/ PairCallBothButtons
       \/ MediaEvents(Endpoints) \/ CallEvents(Endpoints)
       \/ \E e \in Endpoints : \E k \in CallIds : CallOffer(e, k)
    /\ PairCallBounds'

SpecPairCallBothFair ==
    /\ Init /\ [][NextPairCallBoth]_vars
    /\ WF_vars(CallOffersBoth) /\ WF_vars(MediaSettles) /\ WF_vars(CallStreams)

\* ---- reading the logs -----------------------------------------------------

Last(log) == log[Len(log)]

IsPrefix(s, t) == Len(s) <= Len(t) /\ SubSeq(t, 1, Len(s)) = s

\* The log grew by exactly one entry, at its end.
GainsOne(e) ==
    /\ Len(messages'[e]) = Len(messages[e]) + 1
    /\ SubSeq(messages'[e], 1, Len(messages[e])) = messages[e]

\* The texts endpoint e logged as sent by `sender` over connection c, in
\* log order.
TextsOf(e, sender, c) ==
    LET sel == SelectSeq(messages[e],
                         LAMBDA m : m.sender = sender /\ m.type = "text" /\ m.via = c)
    IN  [i \in 1..Len(sel) |-> sel[i].content[1]]

\* How many entries of endpoint e are texts t of `sender`.
CountTexts(e, sender, t) ==
    Len(SelectSeq(messages[e],
                  LAMBDA m : m.sender = sender /\ m.type = "text" /\ m.content = <<t>>))

\* How many text frames t are on their way to endpoint e over the first n
\* connections.
RECURSIVE InFlightTo(_, _, _)
InFlightTo(e, t, n) ==
    IF n = 0 THEN 0
    ELSE InFlightTo(e, t, n - 1)
         + Len(SelectSeq(conns[n].q[e], LAMBDA f : f.type = "text" /\ f.content = t))

NoEndClosed == \A c \in ConnIds : \A e \in Endpoints : conns[c].st[e] # "closed"

\* ---- C1 -------------------------------------------------------------------

\* C1: status moves only along disconnected -> connecting -> connected ->
\* disconnected.  It becomes 'connecting' only from 'disconnected' and only
\* by a connect whose id is not blank; it becomes 'connected' only in the
\* step in which the open event of a data connection fires (an inbound
\* connection goes from 'disconnected' straight to 'connected'); and the
\* only status that follows 'connected' is 'disconnected'.
C1_Lifecycle ==
    [][\A e \in Local :
        /\ (status'[e] = "connecting" /\ status[e] # "connecting")
              => /\ status[e] = "disconnected"
                 /\ Trim(targetId[e]) # ""
                 /\ connectToPeer(e)
        /\ (status'[e] = "connected" /\ status[e] # "connected")
              => \E c \in ConnIds : ConnOpen(e, c)
        /\ (status[e] = "connected" /\ status'[e] # "connected")
              => status'[e] = "disconnected"]_vars

\* An outbound connection went through the whole lifecycle: it opened and
\* closed again, and the log holds the two notices.
C1_Witness ==
    \E c \in ConnIds :
        /\ conns[c].from = "A"
        /\ conns[c].st["A"] = "closed"
        /\ status["A"] = "disconnected"
        /\ Len(messages["A"]) = 2
        /\ messages["A"][1].content = <<"data channel established with", "B">>
        /\ messages["A"][2].content = <<"data channel closed">>

\* ---- C2 -------------------------------------------------------------------

\* C2: a connect invoked while status is 'connecting' or 'connected' does
\* nothing: no further connection is created, and status, the stored handle
\* and the log stay as they are.
C2_ConnectNoOp ==
    [][\A e \in Local :
        (status[e] \in {"connecting", "connected"} /\ connectToPeer(e))
            => UNCHANGED <<status, connection, connectionRef, messages, conns>>]_vars

\* ---- C3 -------------------------------------------------------------------

\* C3: an endpoint never has two connections open at once that both wrote
\* to its log.
C3_OneActive ==
    \A e \in Local : \A c, d \in ConnIds :
        (/\ c # d
         /\ conns[c].st[e] = "open"
         /\ conns[d].st[e] = "open")
            => ~(/\ \E i \in DOMAIN messages[e] : messages[e][i].via = c
                 /\ \E j \in DOMAIN messages[e] : messages[e][j].via = d)

\* ---- C4 -------------------------------------------------------------------

\* C4: a send of a text invoked while status is 'disconnected' or
\* 'connecting' puts no frame on any connection and adds no entry of sender
\* 'me' to the log.
C4_SendNeedsConnected ==
    [][\A e \in Local : \A t \in InputTexts :
        (status[e] \in {"disconnected", "connecting"} /\ sendMessage(e, t))
            => /\ \A c \in ConnIds : conns'[c].q = conns[c].q
               /\ \A x \in InputTexts :
                     CountTexts(e, "me", x)' = CountTexts(e, "me", x)]_vars

\* ---- C5 -------------------------------------------------------------------

\* C5: no text is lost or duplicated while no connection has closed: for
\* each text, the sender's log holds as many entries of sender 'me' as the
\* receiver's log holds entries of sender 'remote' plus the frames still on
\* their way.
C5_NoLossNoDup ==
    NoEndClosed =>
        \A e \in Endpoints : \A t \in InputTexts :
            CountTexts(e, "me", t)
                = CountTexts(Other(e), "remote", t) + InFlightTo(Other(e), t, Len(conns))

\* ---- C6 -------------------------------------------------------------------

C7_StartBeforeFile ==
    \A e \in Endpoints : \A j \in DOMAIN messages[e] :
        (messages[e][j].sender = "remote" /\ messages[e][j].type = "file")
            => \E i \in 1..(j - 1) :
                  /\ messages[e][i].type = "system"
                  /\ messages[e][i].via = messages[e][j].via
                  /\ messages[e][i].content
                        = <<Other(e), "is sending file", messages[e][j].fileName>>

\* ---- C8 -------------------------------------------------------------------

\* C8: a received frame of type 'text', 'file-start' or 'file' adds exactly
\* one entry to the log: a text of sender 'remote' with the frame's content,
\* a system notice, or a file of sender 'remote' with the frame's file name,
\* declared size and payload.
C8_FrameAppendsOne ==
    [][\A e \in Local : \A c \in ConnIds : \A f \in AnyFrames :
        (f.type \in {"text", "file-start", "file"} /\ RemoteData(e, c, f))
            => /\ GainsOne(e)
               /\ LET m == Last(messages'[e]) IN
                  CASE f.type = "text" ->
                         /\ m.sender = "remote" /\ m.type = "text"
                         /\ m.content = <<f.content>>
                    [] f.type = "file-start" ->
                         m.sender = "system" /\ m.type = "system"
                    [] f.type = "file" ->
                         /\ m.sender = "remote" /\ m.type = "file"
                         /\ m.fileName = f.fileName
                         /\ m.fileSize = f.fileSize
                         /\ m.fileData = f.file]_vars

\* A file frame came in whose declared size is not the length of its
\* payload, and the log ends with its entry.
C8_Witness ==
    /\ lastData["A"] = "file"
    /\ messages["A"] # <<>>
    /\ Last(messages["A"]).type = "file"
    /\ Last(messages["A"]).fileSize # Len(Last(messages["A"]).fileData)

\* ---- C9 -------------------------------------------------------------------

\* C9: a received frame of any other type changes neither the log nor the
\* status, the stored handle or the state of the call.
C9_UnknownIgnored ==
    [][\A e \in Local : \A c \in ConnIds :
        RemoteData(e, c, OtherFrame)
            => UNCHANGED <<messages, status, connection, connectionRef,
                           callState, callMode, mediaCallRef>>]_vars

\* A frame of another type came in while connected, with a call incoming.
C9_Witness ==
    /\ lastData["A"] = "ping"
    /\ status["A"] = "connected"
    /\ callState["A"] = "incoming"

\* ---- C10 ------------------------------------------------------------------

\* C10: when a data connection closes or reports an error, status becomes
\* 'disconnected', the stored handle (state and ref) is cleared and the log
\* gains one system notice.
C10_CloseCleansUp ==
    [][\A e \in Local : \A c \in ConnIds :
        (ConnClose(e, c) \/ ConnError(e, c))
            => /\ status'[e] = "disconnected"
               /\ connection'[e] = 0
               /\ connectionRef'[e] = 0
               /\ GainsOne(e)
               /\ Last(messages'[e]).type = "system"]_vars

\* An inbound connection, which the handle pointed to, opened and closed.
C10_Witness ==
    \E c \in ConnIds :
        /\ conns[c].from = "B"
        /\ conns[c].st["A"] = "closed"
        /\ status["A"] = "disconnected"
        /\ connectionRef["A"] = 0
        /\ connection["A"] = 0
        /\ messages["A"] # <<>>
        /\ Last(messages["A"]).content = <<"data channel closed">>
        /\ Last(messages["A"]).via = c

\* ---- C11 ------------------------------------------------------------------

\* C11: when the broker reports that the id a connect went to is not
\* registered, status goes from 'connecting' to 'disconnected', the log
\* gains one system notice that says the id was not found, and nothing is
\* retried: no connection is created and none changes its state.
C11_UnknownIdNotice ==
    [][\A e \in Local : \A c \in ConnIds :
        (status[e] = "connecting" /\ PeerUnavailable(e, c))
            => /\ status'[e] = "disconnected"
               /\ GainsOne(e)
               /\ Last(messages'[e]).type = "system"
               /\ Last(messages'[e]).content
                     = <<"connection problem", "id not found, check the peer is online">>
               /\ Len(conns') = Len(conns)
               /\ \A d \in ConnIds : conns'[d].st = conns[d].st]_vars

\* A connect went to an id nobody registered and the broker said so.
C11_Witness ==
    \E c \in ConnIds :
        /\ conns[c].from = "A"
        /\ conns[c].to = "Z"
        /\ conns[c].expired
        /\ status["A"] = "disconnected"
        /\ messages["A"] # <<>>
        /\ Last(messages["A"]).content[2] = "id not found, check the peer is online"

\* ---- C12 ------------------------------------------------------------------

C13_UniqueIds ==
    \A e \in Local : \A i, j \in DOMAIN messages[e] :
        i # j => messages[e][i].id # messages[e][j].id

\* ---- C14 ------------------------------------------------------------------

CallEdges ==
    {<<"idle", "calling">>, <<"idle", "incoming">>, <<"calling", "active">>,
     <<"incoming", "active">>, <<"calling", "idle">>, <<"incoming", "idle">>,
     <<"active", "idle">>}

\* C14: behind its buttons, the component's call state changes only along
\* idle->calling, idle->incoming, calling->active, incoming->active and
\* calling/incoming/active->idle.
C14_CallEdges ==
    [][\A e \in Local :
          callState'[e] # callState[e] => <<callState[e], callState'[e]>> \in CallEdges]_vars

\* The part of C14 about idle: the call state never goes from idle to active.
C14_IdleNeverActive ==
    [][\A e \in Local : ~(callState[e] = "idle" /\ callState'[e] = "active")]_vars

\* ---- C15 ------------------------------------------------------------------

\* The remote stream is attached to the element of the call's mode.
RemoteAttached(e) ==
    \/ srcObject[e].remoteVideo # 0
    \/ srcObject[e].remoteAudio # 0

\* C15: whenever the call state is active, a local media stream is held and
\* a remote media stream is attached.
C15_ActiveHasStreams ==
    \A e \in Local :
        callState[e] = "active" => localStreamRef[e] # 0 /\ RemoteAttached(e)

\* ---- C16 ------------------------------------------------------------------

\* The streams endpoint e acquired whose tracks are live.
LiveStreams(e) == {i \in DOMAIN streams : streams[i].owner = e /\ streams[i].live}

\* C16: hangUp from active ends in idle with no live local track and the
\* local stream handle cleared.
C16_HangUpReleases ==
    [][\A e \in Local :
          (callState[e] = "active" /\ hangUp(e)) =>
              /\ callState'[e] = "idle"
              /\ localStreamRef'[e] = 0
              /\ LiveStreams(e)' = {}]_vars

\* ---- C17 ------------------------------------------------------------------

\* C17: in every state where the call state is idle, no local media track
\* is live.
C17_IdleHoldsNoDevice ==
    \A e \in Local : callState[e] = "idle" => LiveStreams(e) = {}

\* ---- C18 ------------------------------------------------------------------

\* C18: a startCall invoked while the call state is not idle starts no media
\* acquisition, places no call and leaves the call state, the mode and the
\* media handles unchanged.
C18_StartCallGuarded ==
    [][\A e \in Local : \A m \in {"audio", "video"} :
          (callState[e] # "idle" /\ startCall(e, m)) =>
              UNCHANGED <<acquiring, calls, callState, callMode,
                          mediaCallRef, localStreamRef>>]_vars

\* ---- C19 ------------------------------------------------------------------

\* C19: when the media acquisition of startCall or answerCall fails, the call
\* state becomes idle, one system notice is appended, no call is placed and
\* none is answered, no stream is held, and the request is not issued again.
C19_DeniedAborts ==
    [][\A e \in Local : \A i \in DOMAIN acquiring[e] :
          MediaDenied(e, i) =>
              /\ callState'[e] = "idle"
              /\ GainsOne(e)
              /\ Last(messages'[e]).type = "system"
              /\ Last(messages'[e]).content = <<"cannot get media device">>
              /\ calls' = calls
              /\ streams' = streams
              /\ localStreamRef' = localStreamRef
              /\ acquiring'[e] = Without(acquiring[e], i)]_vars

\* The acquisition of an answer failed: the state is idle, the notice is the
\* last entry, the call was not answered and nothing is pending.
C19_Witness ==
    \E k \in CallIds :
        /\ callState["A"] = "idle"
        /\ messages["A"] # <<>>
        /\ Last(messages["A"]).content = <<"cannot get media device">>
        /\ calls[k].to = "A"
        /\ calls[k].st["A"] = "ringing"
        /\ acquiring["A"] = <<>>
        /\ streams = <<>>

\* The same for startCall: no call was placed.
C19_StartDenied ==
    /\ callState["A"] = "idle"
    /\ messages["A"] # <<>>
    /\ Last(messages["A"]).content = <<"cannot get media device">>
    /\ calls = <<>>
    /\ acquiring["A"] = <<>>
    /\ callMode["A"] = "video"

\* ---- C20 ------------------------------------------------------------------

\* B rejected the call A placed and is still waiting on.
RejectedWhileCalling ==
    /\ callState["A"] = "calling"
    /\ mediaCallRef["A"] # 0
    /\ calls[mediaCallRef["A"]].st["B"] = "closed"
    /\ callState["B"] = "idle"
    /\ messages["B"] # <<>>
    /\ Last(messages["B"]).content = <<"call rejected">>

\* C20, the callee: rejectCall in incoming leaves the callee idle and neither
\* requests nor acquires a media device.
C20_CalleeIdle ==
    [][(callState["B"] = "incoming" /\ rejectCall("B")) =>
          /\ callState'["B"] = "idle"
          /\ acquiring' = acquiring
          /\ Len(streams') = Len(streams)
          /\ LiveStreams("B")' \subseteq LiveStreams("B")]_vars

\* C20, the caller: once the callee rejected, the caller's call state
\* returns from calling to idle.
C20_CallerReturns == RejectedWhileCalling ~> (callState["A"] = "idle")

\* C20: when the callee rejects an incoming call it becomes idle without
\* requesting or acquiring a media device, and the caller's call state
\* eventually returns from calling to idle.
C20_RejectEndsCall == C20_CalleeIdle /\ C20_CallerReturns

\* ---- C21 ------------------------------------------------------------------

NoSrcObject == [localVideo |-> 0, remoteVideo |-> 0, remoteAudio |-> 0]

\* What handleCallEnded leaves behind at endpoint e, seen from the step.
CleanedUp(e) ==
    /\ callState'[e] = "idle"
    /\ LiveStreams(e)' = {}
    /\ localStreamRef'[e] = 0
    /\ srcObject'[e] = NoSrcObject
    /\ ~isMuted'[e] /\ ~isCamOff'[e]
    /\ Len(messages'[e]) > Len(messages[e])
    /\ Last(messages'[e]).type = "system"

\* The other end of the call endpoint e is in was closed.
RemoteClosed(e) ==
    /\ callState[e] # "idle"
    /\ mediaCallRef[e] # 0
    /\ calls[mediaCallRef[e]].st[Other(e)] = "closed"

\* C21, the handler: a close or an error of a call reported while the call
\* state is not idle runs the cleanup.
C21_EndedCleansUp ==
    [][\A e \in Endpoints : \A k \in CallIds :
          (callState[e] # "idle" /\ (CallClose(e, k) \/ CallError(e, k)))
              => CleanedUp(e)]_vars

\* C21, the outcome: once the remote side closed the call, the local call
\* state returns to idle.
C21_RemoteCloseEnds ==
    \A e \in Endpoints : RemoteClosed(e) ~> (callState[e] = "idle")

\* C21: when the remote side closes the call or the call errors while the
\* local call state is calling, incoming or active, the local endpoint runs
\* the cleanup and ends in idle.
C21_RemoteEndCleansUp == C21_EndedCleansUp /\ C21_RemoteCloseEnds

\* The callee is still in incoming after the caller cancelled.
C21_IncomingStays ==
    (RemoteClosed("B") /\ callState["B"] = "incoming") ~> (callState["B"] = "idle")

\* ---- C23 ------------------------------------------------------------------

\* The counter is 0 outside active.
C23_ZeroOutsideActive ==
    \A e \in Local : callState[e] # "active" => callDuration[e] = 0

\* The counter in a step: 0 on entering active, then one more per tick and
\* otherwise unchanged while active; a tick happens only while active.
C23_CountsWhileActive ==
    [][\A e \in Local :
          /\ (callState[e] # "active" /\ callState'[e] = "active")
                 => callDuration'[e] = 0
          /\ (callState[e] = "active" /\ callState'[e] = "active")
                 => callDuration'[e] \in {callDuration[e], callDuration[e] + 1}
          /\ TimerTick(e)
                 => /\ callState[e] = "active" /\ callState'[e] = "active"
                    /\ callDuration'[e] = callDuration[e] + 1
          /\ callDuration'[e] # callDuration[e]
                 => TimerTick(e) \/ callState'[e] # callState[e]]_vars

AudioEnabled(s, e) == s.streams[s.localStreamRef[e]].audio

VideoEnabled(s, e) == s.streams[s.localStreamRef[e]].video

HasVideo(s, e) == s.streams[s.localStreamRef[e]].hasVideo

\* An invocation of the toggle, rendered.
Muted(s, e) == toggleMute(s, e, s)

CamOff(s, e) == toggleCamera(s, e, s)

\* One toggleMute flips the mute flag and the audio track, two restore them.
MutePair(e) ==
    /\ Muted(Cur, e).isMuted[e] = ~isMuted[e]
    /\ AudioEnabled(Muted(Cur, e), e) = ~AudioEnabled(Cur, e)
    /\ Muted(Muted(Cur, e), e).isMuted[e] = isMuted[e]
    /\ AudioEnabled(Muted(Muted(Cur, e), e), e) = AudioEnabled(Cur, e)

\* The same for toggleCamera and the video track.
CameraPair(e) ==
    /\ CamOff(Cur, e).isCamOff[e] = ~isCamOff[e]
    /\ CamOff(CamOff(Cur, e), e).isCamOff[e] = isCamOff[e]
    /\ HasVideo(Cur, e) =>
          /\ VideoEnabled(CamOff(Cur, e), e) = ~VideoEnabled(Cur, e)
          /\ VideoEnabled(CamOff(CamOff(Cur, e), e), e) = VideoEnabled(Cur, e)

\* C22: during an active call one toggleMute flips the mute flag and the
\* enabled flag of the local audio track and a second one restores both; the
\* same for toggleCamera and the video track.
C22_TogglePairs ==
    \A e \in Local :
        (callState[e] = "active" /\ localStreamRef[e] # 0)
            => MutePair(e) /\ CameraPair(e)

\* ---- C28 ------------------------------------------------------------------

\* The flags agree with the tracks of the stream held in state s.
FlagsAgree(s, e) ==
    s.localStreamRef[e] # 0 =>
        /\ AudioEnabled(s, e) = ~s.isMuted[e]
        /\ HasVideo(s, e) => (VideoEnabled(s, e) = ~s.isCamOff[e])

\* C28: whenever a local stream is held, its audio track is enabled exactly
\* when isMuted is false and its video track exactly when isCamOff is false.
C28_FlagsAgree == \A e \in Local : FlagsAgree(Cur, e)

\* C28, two toggleMute calls handled before a render: both read the same
\* isMuted.
C28_BatchedAgree ==
    \A e \in Local :
        (callState[e] = "active" /\ FlagsAgree(Cur, e))
            => FlagsAgree(toggleMute(toggleMute(Cur, e, Cur), e, Cur), e)

\* C22 where the flags agree with the tracks.
C22_PairsWhenAgreeing ==
    \A e \in Local :
        (callState[e] = "active" /\ localStreamRef[e] # 0 /\ FlagsAgree(Cur, e))
            => MutePair(e) /\ CameraPair(e)

\* ---- C24 ------------------------------------------------------------------

\* C24: the call state leaves idle, to calling or to incoming, only while
\* the connection status is connected.
C24_CallNeedsConnection ==
    [][\A e \in Local :
          (callState[e] = "idle" /\ callState'[e] # "idle")
              => status[e] = "connected"]_vars

\* C24 for startCall alone, called whatever the buttons show.
C24_StartNeedsConnection ==
    [][\A e \in Local : \A m \in {"audio", "video"} :
          (startCall(e, m) /\ callState'[e] # callState[e])
              => status[e] = "connected"]_vars

\* ---- C25 ------------------------------------------------------------------

\* An endpoint of a connected pair, idle: its call buttons are rendered and
\* the other endpoint is the peer of its connection.
PairedIdle(e) ==
    /\ CallButtonsShown(e)
    /\ connectionRef[e] # 0
    /\ ConnPeer(Cur, e, connectionRef[e]) = Other(e)

\* C25, the caller: startCall(mode) invoked by an idle endpoint of a
\* connected pair enters calling with that mode.
C25_StartEntersCalling ==
    \A e \in Endpoints : \A m \in {"audio", "video"} :
        PairedIdle(e) =>
            ENABLED (startCall(e, m) /\ callState'[e] = "calling" /\ callMode'[e] = m)

\* A call placed by the other endpoint, who is still waiting, is on its way
\* to endpoint e.
OfferOnItsWay(e, k) ==
    /\ calls[k].from = Other(e) /\ calls[k].to = e
    /\ calls[k].st[e] = "none"
    /\ calls[k].st[Other(e)] = "ringing"

\* C25, the callee: the offer of a call placed can be delivered, and its
\* delivery puts the other endpoint in incoming with the mode of the call.
C25_OfferCanArrive ==
    \A e \in Endpoints : \A k \in CallIds :
        OfferOnItsWay(e, k) => ENABLED CallOffer(e, k)

C25_OfferRings ==
    [][\A e \in Endpoints : \A k \in CallIds :
          CallOffer(e, k) =>
              /\ callState'[e] = "incoming"
              /\ mediaCallRef'[e] = k
              /\ callMode'[e] = calls[k].mode]_vars

\* C25: an endpoint of a connected pair that invokes startCall(mode),
\* whether it initiated the data connection or accepted it, enters calling,
\* and once its media is acquired and the call placed, the offer reaches the
\* other endpoint, which enters incoming with the same mode.
C25_EitherEndCalls ==
    /\ []C25_StartEntersCalling
    /\ []C25_OfferCanArrive
    /\ C25_OfferRings

\* C25 for the endpoint that initiated the data connection.
C25_InitiatorCalls ==
    \A m \in {"audio", "video"} :
        PairedIdle("A") =>
            ENABLED (startCall("A", m) /\ callState'["A"] = "calling" /\ callMode'["A"] = m)

\* ---- C26 ------------------------------------------------------------------

\* C26: the stored connection handle, state and ref, is null exactly when
\* the status is disconnected.
C26_HandleMatchesStatus ==
    \A e \in Local :
        /\ (connectionRef[e] = 0) <=> (status[e] = "disconnected")
        /\ (connection[e] = 0) <=> (status[e] = "disconnected")

\* C26 for the connections the endpoint initiated, once the broker has
\* reported on them: disconnected with the handle of such a connection.
C26_ClearedAfterBrokerError ==
    \A e \in Local : \A c \in ConnIds :
        (conns[c].from = e /\ conns[c].expired /\ status[e] = "disconnected")
            => connectionRef[e] # c

\* C26, one direction: connected or connecting only with a handle.
C26_HandleWhileUp ==
    \A e \in Local : status[e] # "disconnected" => connectionRef[e] # 0

\* ---- C27 ------------------------------------------------------------------

\* Connection c of endpoint e was replaced: handleDataConnection ran for a
\* newer connection at e, which is the one in connectionRef.
Replaced(e, c) ==
    /\ conns[c].st[e] # "none"
    /\ connectionRef[e] # 0
    /\ connectionRef[e] > c

\* An event of connection c at endpoint e.
EventOf(e, c) ==
    \/ ConnOpen(e, c)
    \/ ConnClose(e, c)
    \/ ConnError(e, c)
    \/ \E frame \in AnyFrames : RemoteData(e, c, frame)

\* The entries of the log of endpoint e that show a remote Message.
RemoteEntries(log) == SelectSeq(log, LAMBDA m : m.sender = "remote")

\* C27: a late open, data, close or error event of a connection that was
\* replaced changes neither the status nor the handle of the current
\* connection and appends no remote Message.
C27_ReplacedIsSilent ==
    [][\A e \in Local : \A c \in ConnIds :
          (Replaced(e, c) /\ EventOf(e, c)) =>
              /\ status'[e] = status[e]
              /\ connectionRef'[e] = connectionRef[e]
              /\ connection'[e] = connection[e]
              /\ RemoteEntries(messages'[e]) = RemoteEntries(messages[e])]_vars

\* C27 for the data event alone.
C27_ReplacedDataSilent ==
    [][\A e \in Local : \A c \in ConnIds : \A frame \in AnyFrames :
          (Replaced(e, c) /\ RemoteData(e, c, frame)) =>
              RemoteEntries(messages'[e]) = RemoteEntries(messages[e])]_vars

\* ---- C29 ------------------------------------------------------------------

\* The step appended a 'file sent' entry at the end of the log of e.
FileSentLogged(e) ==
    /\ Len(messages'[e]) > Len(messages[e])
    /\ Last(messages'[e]).sender = "me"
    /\ Last(messages'[e]).type = "file"

\* The step handed a 'file' frame to connection c, open at endpoint e.
FileHandedOver(e, c) ==
    /\ conns[c].st[e] = "open"
    /\ Len(conns'[c].q[Other(e)]) = Len(conns[c].q[Other(e)]) + 1
    /\ Last(conns'[c].q[Other(e)]).type = "file"

\* C29: the end of a file read appends 'file sent' to the sender's log only
\* if the 'file' frame was handed to a channel open at that moment.
C29_SentOnlyIfHandedOver ==
    [][\A e \in Endpoints : \A i \in DOMAIN reads[e] :
          (FileLoaded(e, i) /\ FileSentLogged(e))
              => FileHandedOver(e, reads[e][i].conn)]_vars

\* ---- C30 ------------------------------------------------------------------

\* A step that ends a call at endpoint e: hangUp, or the close or the error
\* of a call.
Terminates(e) ==
    \/ hangUp(e)
    \/ \E k \in CallIds : CallClose(e, k)
    \/ \E k \in CallIds : CallError(e, k)

\* C30: each termination of a call appends exactly one termination notice
\* to the log.
C30_OneNoticePerEnd ==
    [][\A e \in Local :
          (callState[e] # "idle" /\ Terminates(e))
              => Len(messages'[e]) = Len(messages[e]) + 1]_vars

\* C30 for the calls whose handlers were attached once, ended by the remote
\* close alone.
C30_RemoteCloseOnce ==
    [][\A e \in Local : \A k \in CallIds :
          (callState[e] # "idle" /\ calls[k].wired[e] = 1 /\ CallClose(e, k))
              => Len(messages'[e]) = Len(messages[e]) + 1]_vars

\* C30 for the local hangUp of an active call alone.
C30_HangUpOnce ==
    [][\A e \in Local :
          (callState[e] = "active" /\ hangUp(e))
              => Len(messages'[e]) = Len(messages[e]) + 1]_vars

====
